---- MODULE Spec2Model ----
(***************************************************************************)
(* TapDigit: lexer, parser and evaluator of math expressions.              *)
(*                                                                         *)
(* A JavaScript string is modelled as a sequence of one-character strings. *)
(* Every method of Lexer is an operator over the record of the Lexer's     *)
(* fields (expression, length, index, marker) that returns the fields      *)
(* after the call together with the value returned or the error thrown.    *)
(***************************************************************************)
EXTENDS Integers, Sequences, FiniteSets, TLC

VARIABLES
  expression,  \* Lexer.expression
  length,      \* Lexer.length
  index,       \* Lexer.index
  marker,      \* Lexer.marker
  op,          \* the last call made: "new", "reset", "next", "peek"
  ret,         \* what the last call returned or threw
  out,         \* results of next() since the last reset, up to the first end/error
  reused,      \* TRUE once reset() was called on a Lexer that had been used before
  text,        \* the caller's input string
  context      \* Evaluator.context

vars == <<expression, length, index, marker, op, ret, out, reused, text, context>>

-----------------------------------------------------------------------------
(* Bounds of the model *)

MaxLexLen == 3

MaxLitLen == 6

(* Characters *)

NUL == "U+0000"
TAB == "\t"
NBSP == "U+00A0"

Digits == {"0", "1", "2", "3", "4", "5", "6", "7", "8", "9"}

Letters ==
  {"a", "b", "c", "d", "e", "f", "g", "h", "i", "j", "k", "l", "m",
   "n", "o", "p", "q", "r", "s", "t", "u", "v", "w", "x", "y", "z",
   "A", "B", "C", "D", "E", "F", "G", "H", "I", "J", "K", "L", "M",
   "N", "O", "P", "Q", "R", "S", "T", "U", "V", "W", "X", "Y", "Z"}

OperatorChars == {"+", "-", "*", "/", "(", ")", "^", "%", "=", ";", ","}

LexAlphabet == {"1", ".", "e", "+", " ", "#"}

Strings(alphabet, n) == UNION {[1..k -> alphabet] : k \in 0..n}

LexTexts == Strings(LexAlphabet, MaxLexLen)

LitAlphabet == {"9", ".", "e", "E", "+", "-"}

LitTexts == Strings(LitAlphabet, MaxLitLen)

-----------------------------------------------------------------------------
(* Results of a call: the object's fields afterwards, and the value
   returned (thrown = FALSE) or the error thrown (thrown = TRUE). *)

undefined == [kind |-> "undefined"]

Return(lx, v) == [lx |-> lx, val |-> v, thrown |-> FALSE]

Throw(lx, e) == [lx |-> lx, val |-> e, thrown |-> TRUE]

LexerTokens == [operator |-> "Operator", identifier |-> "Identifier", number |-> "Number"]

LexerError(lx, message) ==
  [kind |-> "error", name |-> "LexerError", message |-> message,
   position |-> lx.marker - 1]

NewLexer == [expression |-> <<>>, length |-> 0, index |-> 0, marker |-> 0]

-----------------------------------------------------------------------------
(* Lexer *)

isDecimalDigit(ch) == ch \in Digits

isWhiteSpace(ch) == (ch = TAB) \/ (ch = " ") \/ (ch = NBSP)

isLetter(ch) == ch \in Letters

isIdentifierStart(ch) == (ch = "_") \/ isLetter(ch)

isIdentifierPart(ch) == isIdentifierStart(ch) \/ isDecimalDigit(ch)

\* reset() that forgets to rewind the cursor
reset_keepsIndex(lx, str) ==
  [lx EXCEPT !.expression = str, !.length = Len(str)]

reset(lx, str) ==
  [lx EXCEPT !.expression = str, !.length = Len(str), !.index = 0]

\* createToken() with an exclusive end offset
createToken_endExclusive(lx, type, value) ==
  [kind |-> "token", type |-> type, value |-> value,
   start |-> lx.marker, end |-> lx.index]

createToken(lx, type, value) ==
  [kind |-> "token", type |-> type, value |-> value,
   start |-> lx.marker, end |-> lx.index - 1]

peekNextChar(lx) ==
  IF lx.index < lx.length THEN lx.expression[lx.index + 1] ELSE NUL

getNextChar(lx) ==
  IF lx.index < lx.length
    THEN [ch |-> lx.expression[lx.index + 1], lx |-> [lx EXCEPT !.index = @ + 1]]
    ELSE [ch |-> NUL, lx |-> lx]

RECURSIVE skipSpaces(_)
skipSpaces(lx) ==
  IF lx.index < lx.length /\ isWhiteSpace(peekNextChar(lx))
    THEN skipSpaces(getNextChar(lx).lx)
    ELSE lx

\* scanOperator: the token made, the cursor left on the operator
operatorToken_noAdvance(g) ==
  Return([g.lx EXCEPT !.index = @ - 1], createToken(g.lx, LexerTokens.operator, <<g.ch>>))

\* the operator token made of the character consumed (g)
operatorToken(g) ==
  Return(g.lx, createToken(g.lx, LexerTokens.operator, <<g.ch>>))

scanOperator(lx) ==
  IF peekNextChar(lx) \in OperatorChars
    THEN operatorToken(getNextChar(lx))
    ELSE Return(lx, undefined)

\* while (true) { ch = peekNextChar(); if (!isIdentifierPart(ch)) break; id += getNextChar() }
RECURSIVE identifierLoop(_, _)
identifierLoop(lx, id) ==
  IF ~isIdentifierPart(peekNextChar(lx))
    THEN [lx |-> lx, id |-> id]
    ELSE identifierLoop(getNextChar(lx).lx, id \o <<getNextChar(lx).ch>>)

\* the identifier token made of the characters consumed (l)
identifierToken(l) ==
  Return(l.lx, createToken(l.lx, LexerTokens.identifier, l.id))

scanIdentifier(lx) ==
  IF ~isIdentifierStart(peekNextChar(lx))
    THEN Return(lx, undefined)
    ELSE identifierToken(identifierLoop(getNextChar(lx).lx, <<getNextChar(lx).ch>>))

\* while (true) { ch = peekNextChar(); if (!isDecimalDigit(ch)) break; number += getNextChar() }
RECURSIVE digitLoop(_, _)
digitLoop(lx, number) ==
  IF ~isDecimalDigit(peekNextChar(lx))
    THEN [lx |-> lx, number |-> number, ch |-> peekNextChar(lx), bad |-> FALSE]
    ELSE digitLoop(getNextChar(lx).lx, number \o <<getNextChar(lx).ch>>)

\* the integer part: a digit run, unless the number starts with '.'
scanInteger(lx) ==
  IF peekNextChar(lx) # "."
    THEN digitLoop(getNextChar(lx).lx, <<getNextChar(lx).ch>>)
    ELSE [lx |-> lx, number |-> <<>>, ch |-> peekNextChar(lx), bad |-> FALSE]

\* the fraction: '.' and a digit run
scanFraction(s) ==
  IF s.ch = "."
    THEN digitLoop(getNextChar(s.lx).lx, s.number \o <<getNextChar(s.lx).ch>>)
    ELSE s

\* the exponent branch without the sign: only a digit may follow 'e' or 'E'
scanExponentTail_noSign(number, g, ch) ==
  IF isDecimalDigit(ch)
    THEN digitLoop(getNextChar(g.lx).lx, number \o <<g.ch, getNextChar(g.lx).ch>>)
    ELSE [lx |-> g.lx, number |-> number \o <<g.ch>>,
          ch |-> IF g.lx.index >= g.lx.length THEN "<end>" ELSE ch,
          bad |-> TRUE]

\* after 'e' or 'E' was consumed (g): a sign or a digit is consumed, then digits
scanExponentTail(number, g, ch) ==
  IF ch = "+" \/ ch = "-" \/ isDecimalDigit(ch)
    THEN digitLoop(getNextChar(g.lx).lx, number \o <<g.ch, getNextChar(g.lx).ch>>)
    ELSE [lx |-> g.lx, number |-> number \o <<g.ch>>,
          ch |-> IF g.lx.index >= g.lx.length THEN "<end>" ELSE ch,
          bad |-> TRUE]

\* the exponent branch
scanExponent(s) ==
  IF s.ch = "e" \/ s.ch = "E"
    THEN scanExponentTail(s.number, getNextChar(s.lx), peekNextChar(getNextChar(s.lx).lx))
    ELSE s

\* the end of scanNumber: the errors thrown, or the Number token
numberToken(s) ==
  IF s.bad
    THEN Throw(s.lx, LexerError(s.lx, <<"Unexpected after the exponent sign", s.ch>>))
  ELSE IF s.number = <<".">>
    THEN Throw(s.lx, LexerError(s.lx, <<"Expecting decimal digits after the dot sign">>))
  ELSE Return(s.lx, createToken(s.lx, LexerTokens.number, s.number))

scanNumber(lx) ==
  IF ~isDecimalDigit(peekNextChar(lx)) /\ (peekNextChar(lx) # ".")
    THEN Return(lx, undefined)
    ELSE numberToken(scanExponent(scanFraction(scanInteger(lx))))

\* next() after scanIdentifier(): its token, or the error
nextIdentifier(i) ==
  IF i.val # undefined THEN i
  ELSE Throw(i.lx, LexerError(i.lx, <<"Unknown token from character", peekNextChar(i.lx)>>))

\* next() after scanOperator(): its token, or scanIdentifier()
nextOperator(o) ==
  IF o.val # undefined THEN o ELSE nextIdentifier(scanIdentifier(o.lx))

\* next() after scanNumber(): its token or error, or scanOperator()
nextNumber(n) ==
  IF n.thrown \/ n.val # undefined THEN n ELSE nextOperator(scanOperator(n.lx))

\* next() after skipSpaces()
nextToken(s) ==
  IF s.index >= s.length
    THEN Return(s, undefined)
    ELSE nextNumber(scanNumber([s EXCEPT !.marker = s.index]))

next(lx) == nextToken(skipSpaces(lx))

\* delete token.start; delete token.end
positionless(token) ==
  [kind |-> token.kind, type |-> token.type, value |-> token.value]

\* the token peek() returns, given the outcome r of next()
peekToken(r) ==
  IF r.thrown THEN undefined
  ELSE IF r.val # undefined THEN positionless(r.val)
  ELSE undefined

\* peek() once next() has run: index is restored to idx
peekRestore(idx, r) == Return([r.lx EXCEPT !.index = idx], peekToken(r))

\* peek() that forgets to restore the cursor
peek_keepsCursor(lx) == Return(next(lx).lx, peekToken(next(lx)))

\* peek() without the try/catch around next()
peek_noCatch(lx) ==
  IF next(lx).thrown THEN next(lx) ELSE peekRestore(lx.index, next(lx))

peek(lx) == peekRestore(lx.index, next(lx))

-----------------------------------------------------------------------------
(* Context *)

\* Context(): the functions with their arities, the constants, no variable
ContextFunctions ==
  [name \in {<<"a", "b", "s">>, <<"a", "c", "o", "s">>, <<"a", "s", "i", "n">>,
             <<"a", "t", "a", "n">>, <<"c", "e", "i", "l">>, <<"c", "o", "s">>,
             <<"e", "x", "p">>, <<"f", "l", "o", "o", "r">>, <<"l", "n">>,
             <<"r", "a", "n", "d", "o", "m">>, <<"s", "i", "n">>,
             <<"s", "q", "r", "t">>, <<"t", "a", "n">>} |-> <<name, 1>>]

ContextConstants ==
  [name \in {<<"p", "i">>, <<"p", "h", "i">>} |-> [sym |-> name]]

Context ==
  [Constants |-> ContextConstants, Functions |-> ContextFunctions, Variables |-> <<>>]

-----------------------------------------------------------------------------
(* Parser *)

ParserError(lx, message) ==
  [kind |-> "error", name |-> "ParserError", message |-> message,
   position |-> lx.marker - 1]

isOpToken(token, value) ==
  token # undefined /\ token.type = LexerTokens.operator /\ token.value = value

RECURSIVE parseArgumentList(_, _, _), parseFunctionCall(_, _, _), parsePrimary(_, _),
          parseUnary(_, _), parseMultiplicative(_, _), parseAdditive(_, _),
          parseAssignment(_, _), mulLoop(_, _, _), addLoop(_, _, _)

\* Expression ::= Assignment
parseExpression(ctx, lx) == parseAssignment(ctx, lx)

\* parseArgumentList: after peek(): ',' goes round the loop again
argumentListPeeked(ctx, args, p) ==
  IF ~isOpToken(p.val, <<",">>) THEN Return(p.lx, args)
  ELSE IF next(p.lx).thrown THEN next(p.lx)
  ELSE parseArgumentList(ctx, next(p.lx).lx, args)

\* parseArgumentList: after parseExpression()
argumentListParsed(ctx, args, e) ==
  IF e.thrown THEN e
  ELSE IF e.val = undefined THEN Return(e.lx, args)
  ELSE argumentListPeeked(ctx, Append(args, e.val), peek(e.lx))

\* one round of the loop of parseArgumentList, args being the arguments so far
parseArgumentList(ctx, lx, args) ==
  argumentListParsed(ctx, args, parseExpression(ctx, lx))

\* parseFunctionCall: the closing ')'
functionCallClose(name, args, t) ==
  IF t.thrown THEN t
  ELSE IF ~isOpToken(t.val, <<")">>)
    THEN Throw(t.lx, ParserError(t.lx, <<"Missing ) in function", name>>))
  ELSE Return(t.lx, [FunctionCall |-> [name |-> name, args |-> args]])

\* parseFunctionCall: the number of arguments against the declared one
functionCallArity(ctx, name, a) ==
  IF a.thrown THEN a
  ELSE IF Len(a.val) # ctx.Functions[name][2]
    THEN Throw(a.lx, ParserError(a.lx, <<"Function expects arg(s), found", name,
                                          ctx.Functions[name][2], Len(a.val)>>))
  ELSE functionCallClose(name, a.val, next(a.lx))

\* parseFunctionCall: the arguments, unless ')' follows
functionCallArgs(ctx, name, p) ==
  IF ~isOpToken(p.val, <<")">>)
    THEN functionCallArity(ctx, name, parseArgumentList(ctx, p.lx, <<>>))
    ELSE functionCallArity(ctx, name, Return(p.lx, <<>>))

\* parseFunctionCall: the opening '(' and the name
functionCallOpen(ctx, name, t) ==
  IF t.thrown THEN t
  ELSE IF ~isOpToken(t.val, <<"(">>)
    THEN Throw(t.lx, ParserError(t.lx, <<"Expecting ( in a function call", name>>))
  ELSE IF name \notin DOMAIN ctx.Functions
    THEN Throw(t.lx, ParserError(t.lx, <<"Unknown function", name>>))
  ELSE functionCallArgs(ctx, name, peek(t.lx))

\* FunctionCall ::= Identifier '(' ')' || Identifier '(' ArgumentList ')'
parseFunctionCall(ctx, lx, name) == functionCallOpen(ctx, name, next(lx))

\* parsePrimary: the identifier consumed, a call if '(' follows
primaryIdentifierPeeked(ctx, token, p) ==
  IF isOpToken(p.val, <<"(">>)
    THEN parseFunctionCall(ctx, p.lx, token.value)
    ELSE Return(p.lx, [Identifier |-> token.value])

primaryIdentifier(ctx, t) ==
  IF t.thrown THEN t ELSE primaryIdentifierPeeked(ctx, t.val, peek(t.lx))

\* parsePrimary: the number consumed
primaryNumber(t) ==
  IF t.thrown THEN t ELSE Return(t.lx, [Number |-> t.val.value])

\* parsePrimary: '(' Assignment ')'
\* parsePrimary: the group returned as its inner expression, without the wrapper
primaryGroupClose_unwrapped(expr, t) ==
  IF t.thrown THEN t
  ELSE IF ~isOpToken(t.val, <<")">>)
    THEN Throw(t.lx, ParserError(t.lx, <<"Expecting )">>))
  ELSE Return(t.lx, expr)

primaryGroupClose(expr, t) ==
  IF t.thrown THEN t
  ELSE IF ~isOpToken(t.val, <<")">>)
    THEN Throw(t.lx, ParserError(t.lx, <<"Expecting )">>))
  ELSE Return(t.lx, [Expression |-> expr])

primaryGroupParsed(e) ==
  IF e.thrown THEN e ELSE primaryGroupClose(e.val, next(e.lx))

primaryGroup(ctx, t) ==
  IF t.thrown THEN t ELSE primaryGroupParsed(parseAssignment(ctx, t.lx))

\* parsePrimary after peek()
primaryPeeked(ctx, p) ==
  IF p.val = undefined
    THEN Throw(p.lx, ParserError(p.lx, <<"Unexpected end of expression">>))
  ELSE IF p.val.type = LexerTokens.identifier THEN primaryIdentifier(ctx, next(p.lx))
  ELSE IF p.val.type = LexerTokens.number THEN primaryNumber(next(p.lx))
  ELSE IF isOpToken(p.val, <<"(">>) THEN primaryGroup(ctx, next(p.lx))
  ELSE Throw(p.lx, ParserError(p.lx, <<"Unknown token", p.val.value>>))

\* Primary ::= Identifier | Number | '(' Assignment ')' | FunctionCall
parsePrimary(ctx, lx) == primaryPeeked(ctx, peek(lx))

unaryNode(token, e) ==
  IF e.thrown THEN e
  ELSE Return(e.lx, [Unary |-> [operator |-> token.value, expression |-> e.val]])

unaryOperand(ctx, t) ==
  IF t.thrown THEN t ELSE unaryNode(t.val, parseUnary(ctx, t.lx))

unaryPeeked(ctx, p) ==
  IF isOpToken(p.val, <<"-">>) \/ isOpToken(p.val, <<"+">>)
    THEN unaryOperand(ctx, next(p.lx))
    ELSE parsePrimary(ctx, p.lx)

\* Unary ::= Primary | '-' Unary
parseUnary(ctx, lx) == unaryPeeked(ctx, peek(lx))

\* the Binary node of the loops of parseMultiplicative and parseAdditive
binaryNode(token, left, right) ==
  [Binary |-> [operator |-> token.value, left |-> left, right |-> right]]

\* parseMultiplicative: the right operand parsed, peek() for the next round
multiplicativeNode(ctx, expr, token, r) ==
  IF r.thrown THEN r ELSE mulLoop(ctx, binaryNode(token, expr, r.val), peek(r.lx))

\* parseMultiplicative: the right operand parsed as a whole Multiplicative
multiplicativeRight_rightAssoc(ctx, expr, t) ==
  IF t.thrown THEN t
  ELSE multiplicativeNode(ctx, expr, t.val, parseMultiplicative(ctx, t.lx))

\* parseMultiplicative: the operator consumed, the right operand is a Unary
multiplicativeRight(ctx, expr, t) ==
  IF t.thrown THEN t
  ELSE multiplicativeNode(ctx, expr, t.val, parseUnary(ctx, t.lx))

\* parseMultiplicative: '^' taken for a multiplicative operator as well
mulLoop_caret(ctx, expr, p) ==
  IF isOpToken(p.val, <<"*">>) \/ isOpToken(p.val, <<"/">>) \/ isOpToken(p.val, <<"^">>)
    THEN multiplicativeRight(ctx, expr, next(p.lx))
    ELSE Return(p.lx, expr)

\* while (isOpToken(peekToken, '*') || isOpToken(peekToken, '/'))
mulLoop(ctx, expr, p) ==
  IF isOpToken(p.val, <<"*">>) \/ isOpToken(p.val, <<"/">>)
    THEN multiplicativeRight(ctx, expr, next(p.lx))
    ELSE Return(p.lx, expr)

multiplicativeFirst(ctx, e) ==
  IF e.thrown THEN e ELSE mulLoop(ctx, e.val, peek(e.lx))

\* Multiplicative ::= Unary | Multiplicative '*' Unary | Multiplicative '/' Unary
parseMultiplicative(ctx, lx) == multiplicativeFirst(ctx, parseUnary(ctx, lx))

\* parseAdditive: the right operand parsed, peek() for the next round
additiveNode(ctx, expr, token, r) ==
  IF r.thrown THEN r ELSE addLoop(ctx, binaryNode(token, expr, r.val), peek(r.lx))

\* parseAdditive: the right operand parsed as a Unary only
additiveRight_unary(ctx, expr, t) ==
  IF t.thrown THEN t
  ELSE additiveNode(ctx, expr, t.val, parseUnary(ctx, t.lx))

\* parseAdditive: the operator consumed, the right operand is a Multiplicative
additiveRight(ctx, expr, t) ==
  IF t.thrown THEN t
  ELSE additiveNode(ctx, expr, t.val, parseMultiplicative(ctx, t.lx))

\* while (isOpToken(peekToken, '+') || isOpToken(peekToken, '-'))
addLoop(ctx, expr, p) ==
  IF isOpToken(p.val, <<"+">>) \/ isOpToken(p.val, <<"-">>)
    THEN additiveRight(ctx, expr, next(p.lx))
    ELSE Return(p.lx, expr)

additiveFirst(ctx, e) ==
  IF e.thrown THEN e ELSE addLoop(ctx, e.val, peek(e.lx))

\* Additive ::= Multiplicative | Additive '+' Multiplicative | Additive '-' Multiplicative
parseAdditive(ctx, lx) == additiveFirst(ctx, parseMultiplicative(ctx, lx))

assignmentNode(expr, v) ==
  IF v.thrown THEN v
  ELSE Return(v.lx, [Assignment |-> [name |-> [Identifier |-> expr.Identifier],
                                      value |-> v.val]])

assignmentValue(ctx, expr, t) ==
  IF t.thrown THEN t ELSE assignmentNode(expr, parseAssignment(ctx, t.lx))

assignmentPeeked(ctx, expr, p) ==
  IF isOpToken(p.val, <<"=">>)
    THEN assignmentValue(ctx, expr, next(p.lx))
    ELSE Return(p.lx, expr)

\* parseAssignment: a parenthesised identifier taken for the identifier itself
assignmentLeft_throughGroup(ctx, e) ==
  IF e.thrown THEN e
  ELSE IF e.val # undefined /\ "Identifier" \in DOMAIN e.val
    THEN assignmentPeeked(ctx, e.val, peek(e.lx))
  ELSE IF e.val # undefined /\ "Expression" \in DOMAIN e.val
          /\ "Identifier" \in DOMAIN e.val.Expression
    THEN assignmentPeeked(ctx, e.val.Expression, peek(e.lx))
  ELSE e

assignmentLeft(ctx, e) ==
  IF e.thrown THEN e
  ELSE IF e.val # undefined /\ "Identifier" \in DOMAIN e.val
    THEN assignmentPeeked(ctx, e.val, peek(e.lx))
  ELSE e

\* Assignment ::= Identifier '=' Assignment | Additive
parseAssignment(ctx, lx) == assignmentLeft(ctx, parseAdditive(ctx, lx))

\* parse: the tree returned whatever follows the expression
parseEnd_ignoresRest(expr, t) ==
  IF t.thrown THEN t ELSE Return(t.lx, [Expression |-> expr])

\* parse: no token may follow the expression
parseEnd(expr, t) ==
  IF t.thrown THEN t
  ELSE IF t.val # undefined
    THEN Throw(t.lx, ParserError(t.lx, <<"Unexpected token", t.val.value>>))
  ELSE Return(t.lx, [Expression |-> expr])

\* parse: the end of the input tested with peek() instead of next()
parseParsed_peekEnd(e) ==
  IF e.thrown THEN e ELSE parseEnd(e.val, peek(e.lx))

parseParsed(e) ==
  IF e.thrown THEN e ELSE parseEnd(e.val, next(e.lx))

\* Parser.parse on a Parser whose lexer has the fields lx
parse(ctx, lx, str) == parseParsed(parseExpression(ctx, reset(lx, str)))

-----------------------------------------------------------------------------
(* Numbers.  A double is modelled as the exact ratio n/d (d > 0, lowest
   terms); d = 0 stands for Infinity (n = 1), -Infinity (n = -1) and NaN
   (n = 0).  No rounding and no negative zero.  A number the model does not
   compute (a constant of Context(), the result of a Math function other than
   abs) is kept as a term [sym |-> ...]. *)

RECURSIVE GCD(_, _)
GCD(a, b) == IF b = 0 THEN a ELSE GCD(b, a % b)

Abs(x) == IF x < 0 THEN -x ELSE x

Sign(x) == IF x > 0 THEN 1 ELSE IF x < 0 THEN -1 ELSE 0

Ratio(n, d) ==
  IF d = 0 THEN [n |-> Sign(n), d |-> 0]
  ELSE [n |-> (Sign(d) * n) \div GCD(Abs(n), Abs(d)),
        d |-> Abs(d) \div GCD(Abs(n), Abs(d))]

NaN == [n |-> 0, d |-> 0]

IsRatio(v) == "d" \in DOMAIN v

\* -expr
negate(a) ==
  IF ~IsRatio(a) THEN [sym |-> <<"-", a>>] ELSE [n |-> -a.n, d |-> a.d]

\* left + right
add(a, b) ==
  IF ~IsRatio(a) \/ ~IsRatio(b) THEN [sym |-> <<"+", a, b>>]
  ELSE IF a = NaN \/ b = NaN THEN NaN
  ELSE IF a.d = 0 /\ b.d = 0 THEN (IF a.n = b.n THEN a ELSE NaN)
  ELSE IF a.d = 0 THEN a
  ELSE IF b.d = 0 THEN b
  ELSE Ratio(a.n * b.d + b.n * a.d, a.d * b.d)

\* left - right
subtract(a, b) ==
  IF ~IsRatio(a) \/ ~IsRatio(b) THEN [sym |-> <<"-", a, b>>] ELSE add(a, negate(b))

\* left * right
multiply(a, b) ==
  IF ~IsRatio(a) \/ ~IsRatio(b) THEN [sym |-> <<"*", a, b>>]
  ELSE Ratio(a.n * b.n, a.d * b.d)

\* left / right
divide(a, b) ==
  IF ~IsRatio(a) \/ ~IsRatio(b) THEN [sym |-> <<"/", a, b>>]
  ELSE IF a.d = 0 /\ b.d # 0 THEN [n |-> IF b.n < 0 THEN -a.n ELSE a.n, d |-> 0]
  ELSE Ratio(a.n * b.d, a.d * b.n)

DigitValue ==
  ("0" :> 0) @@ ("1" :> 1) @@ ("2" :> 2) @@ ("3" :> 3) @@ ("4" :> 4) @@
  ("5" :> 5) @@ ("6" :> 6) @@ ("7" :> 7) @@ ("8" :> 8) @@ ("9" :> 9)

\* the position after the run of decimal digits of s that starts at position p
RECURSIVE digitsEnd(_, _)
digitsEnd(s, p) ==
  IF p <= Len(s) /\ s[p] \in Digits THEN digitsEnd(s, p + 1) ELSE p

\* the value of a run of decimal digits
RECURSIVE decimal(_)
decimal(ds) ==
  IF ds = <<>> THEN 0
  ELSE 10 * decimal(SubSeq(ds, 1, Len(ds) - 1)) + DigitValue[ds[Len(ds)]]

RECURSIVE pow10(_)
pow10(e) == IF e = 0 THEN 1 ELSE 10 * pow10(e - 1)

\* n * 10^e
scale(n, e) == IF e >= 0 THEN Ratio(n * pow10(e), 1) ELSE Ratio(n, pow10(-e))

\* parseFloat: the exponent, if e/E [sign] is followed by a digit (k: where the
\* digits of the exponent would start)
floatScaled(s, mant, fracLen, j, k) ==
  IF digitsEnd(s, k) > k
    THEN scale(decimal(mant),
               (IF s[j + 1] = "-" THEN -1 ELSE 1) * decimal(SubSeq(s, k, digitsEnd(s, k) - 1))
                 - fracLen)
    ELSE scale(decimal(mant), -fracLen)

\* parseFloat: after the mantissa (its digits mant, fracLen of them after the dot)
floatExponent(s, mant, fracLen, j) ==
  IF mant = <<>> THEN NaN
  ELSE IF j <= Len(s) /\ s[j] \in {"e", "E"}
    THEN floatScaled(s, mant, fracLen, j,
                     IF j + 1 <= Len(s) /\ s[j + 1] \in {"+", "-"} THEN j + 2 ELSE j + 1)
  ELSE scale(decimal(mant), -fracLen)

\* parseFloat: after the integer digits, which end before position i
floatFraction(s, i) ==
  IF i <= Len(s) /\ s[i] = "."
    THEN floatExponent(s, SubSeq(s, 1, i - 1) \o SubSeq(s, i + 1, digitsEnd(s, i + 1) - 1),
                       digitsEnd(s, i + 1) - i - 1, digitsEnd(s, i + 1))
    ELSE floatExponent(s, SubSeq(s, 1, i - 1), 0, i)

\* parseFloat(node.Number): the longest prefix of s that is a decimal literal
parseFloat(s) == floatFraction(s, digitsEnd(s, 1))

\* Functions[name][0].apply(null, args)
apply(fn, args) ==
  IF fn = <<"a", "b", "s">>
    THEN IF args = <<>> THEN NaN
         ELSE IF IsRatio(args[1]) THEN [n |-> Abs(args[1].n), d |-> args[1].d]
         ELSE [sym |-> <<fn, args>>]
    ELSE [sym |-> <<fn, args>>]

-----------------------------------------------------------------------------
(* Evaluator.  exec() returns the context afterwards (c) with the value
   returned or the error thrown; lx is evaluator.parser.lexer. *)

EReturn(c, v) == [c |-> c, val |-> v, thrown |-> FALSE]

EThrow(c, e) == [c |-> c, val |-> e, thrown |-> TRUE]

EvaluatorError(lx, message) ==
  [kind |-> "error", name |-> "EvaluatorError", message |-> message,
   position |-> lx.marker - 1]

hasOwnProperty(map, key) == key \in DOMAIN map

\* map[key] = value
Put(map, key, value) ==
  [k \in DOMAIN map \cup {key} |-> IF k = key THEN value ELSE map[k]]

RECURSIVE exec(_, _, _), execArguments(_, _, _, _, _)

\* exec, Binary: both operands evaluated, the operator applied
execBinaryApply(lx, operator, left, r) ==
  IF r.thrown THEN r
  ELSE IF operator = <<"+">> THEN EReturn(r.c, add(left, r.val))
  ELSE IF operator = <<"-">> THEN EReturn(r.c, subtract(left, r.val))
  ELSE IF operator = <<"*">> THEN EReturn(r.c, multiply(left, r.val))
  ELSE IF operator = <<"/">> THEN EReturn(r.c, divide(left, r.val))
  ELSE EThrow(r.c, EvaluatorError(lx, <<"Unknown operator", operator>>))

\* exec, Binary: the left operand evaluated, then the right one
execBinaryRight(lx, subNode, l) ==
  IF l.thrown THEN l
  ELSE execBinaryApply(lx, subNode.operator, l.val, exec(l.c, lx, subNode.right))

\* exec, Binary: the right operand was evaluated first (r), then the left one (l)
execBinaryLeftLast(lx, subNode, r, l) ==
  IF l.thrown THEN l
  ELSE execBinaryApply(lx, subNode.operator, l.val, EReturn(l.c, r.val))

\* exec, Binary: the right operand evaluated before the left one
execBinary_rightFirst(c, lx, subNode) ==
  IF exec(c, lx, subNode.right).thrown THEN exec(c, lx, subNode.right)
  ELSE execBinaryLeftLast(lx, subNode, exec(c, lx, subNode.right),
                          exec(exec(c, lx, subNode.right).c, lx, subNode.left))

execBinary(c, lx, subNode) == execBinaryRight(lx, subNode, exec(c, lx, subNode.left))

\* exec, Unary: the operand evaluated, the operator applied
execUnaryApply(lx, operator, e) ==
  IF e.thrown THEN e
  ELSE IF operator = <<"+">> THEN e
  ELSE IF operator = <<"-">> THEN EReturn(e.c, negate(e.val))
  ELSE EThrow(e.c, EvaluatorError(lx, <<"Unknown operator", operator>>))

execUnary(c, lx, subNode) ==
  execUnaryApply(lx, subNode.operator, exec(c, lx, subNode.expression))

\* exec, Identifier: the variables looked up before the constants
execIdentifier_variablesFirst(c, lx, name) ==
  IF hasOwnProperty(c.Variables, name) THEN EReturn(c, c.Variables[name])
  ELSE IF hasOwnProperty(c.Constants, name) THEN EReturn(c, c.Constants[name])
  ELSE EThrow(c, EvaluatorError(lx, <<"Unknown identifier">>))

execIdentifier(c, lx, name) ==
  IF hasOwnProperty(c.Constants, name) THEN EReturn(c, c.Constants[name])
  ELSE IF hasOwnProperty(c.Variables, name) THEN EReturn(c, c.Variables[name])
  ELSE EThrow(c, EvaluatorError(lx, <<"Unknown identifier">>))

\* exec, Assignment: a constant of that name is overwritten
execAssignmentWrite_toConstants(name, r) ==
  IF r.thrown THEN r
  ELSE IF hasOwnProperty(r.c.Constants, name)
    THEN EReturn([r.c EXCEPT !.Constants = Put(@, name, r.val)], r.val)
  ELSE EReturn([r.c EXCEPT !.Variables = Put(@, name, r.val)], r.val)

\* exec, Assignment: the value evaluated, then written to Variables
execAssignmentWrite(name, r) ==
  IF r.thrown THEN r
  ELSE EReturn([r.c EXCEPT !.Variables = Put(@, name, r.val)], r.val)

execAssignment(c, lx, subNode) ==
  execAssignmentWrite(subNode.name.Identifier, exec(c, lx, subNode.value))

\* exec, FunctionCall: argument i evaluated, then the following ones
execArgumentsNext(lx, args, i, values, r) ==
  IF r.thrown THEN r
  ELSE execArguments(r.c, lx, args, i + 1, Append(values, r.val))

\* for (let i = 0; i < expr.args.length; i += 1) args.push(this.exec(expr.args[i]))
execArguments(c, lx, args, i, values) ==
  IF i > Len(args) THEN EReturn(c, values)
  ELSE execArgumentsNext(lx, args, i, values, exec(c, lx, args[i]))

execFunctionApply(fn, a) ==
  IF a.thrown THEN a ELSE EReturn(a.c, apply(fn, a.val))

\* exec, FunctionCall: the arguments evaluated before the name is looked up
execFunctionCall_argumentsFirst(c, lx, expr) ==
  IF execArguments(c, lx, expr.args, 1, <<>>).thrown
    THEN execArguments(c, lx, expr.args, 1, <<>>)
  ELSE IF hasOwnProperty(c.Functions, expr.name)
    THEN execFunctionApply(c.Functions[expr.name][1],
                           execArguments(c, lx, expr.args, 1, <<>>))
  ELSE EThrow(execArguments(c, lx, expr.args, 1, <<>>).c,
              EvaluatorError(lx, <<"Unknown function", expr.name>>))

execFunctionCall(c, lx, expr) ==
  IF hasOwnProperty(c.Functions, expr.name)
    THEN execFunctionApply(c.Functions[expr.name][1],
                           execArguments(c, lx, expr.args, 1, <<>>))
    ELSE EThrow(c, EvaluatorError(lx, <<"Unknown function", expr.name>>))

exec(c, lx, node) ==
  IF "Expression" \in DOMAIN node THEN exec(c, lx, node.Expression)
  ELSE IF "Number" \in DOMAIN node THEN EReturn(c, parseFloat(node.Number))
  ELSE IF "Binary" \in DOMAIN node THEN execBinary(c, lx, node.Binary)
  ELSE IF "Unary" \in DOMAIN node THEN execUnary(c, lx, node.Unary)
  ELSE IF "Identifier" \in DOMAIN node THEN execIdentifier(c, lx, node.Identifier)
  ELSE IF "Assignment" \in DOMAIN node THEN execAssignment(c, lx, node.Assignment)
  ELSE IF "FunctionCall" \in DOMAIN node THEN execFunctionCall(c, lx, node.FunctionCall)
  ELSE EThrow(c, EvaluatorError(lx, <<"Unknown syntax node">>))

\* the outcome of evaluate: the context and the parser's lexer afterwards
evaluateResult(lx, r) == [c |-> r.c, lx |-> lx, val |-> r.val, thrown |-> r.thrown]

\* evaluate: the variables dropped when the text does not parse
evaluateParsed_clearsVariables(c, t) ==
  IF t.thrown THEN evaluateResult(t.lx, EThrow([c EXCEPT !.Variables = <<>>], t.val))
  ELSE evaluateResult(t.lx, exec(c, t.lx, t.val.Expression))

\* evaluate: the tree parsed, then exec(tree.Expression)
evaluateParsed(c, t) ==
  IF t.thrown THEN evaluateResult(t.lx, EThrow(c, t.val))
  ELSE evaluateResult(t.lx, exec(c, t.lx, t.val.Expression))

\* evaluate with a new Context() for every call
evaluate_newContext(c, lx, str) == evaluateParsed(Context, parse(Context, lx, str))

\* Evaluator.evaluate; the Evaluator's parser is new Parser(), whose context is Context()
evaluate(c, lx, str) == evaluateParsed(c, parse(Context, lx, str))

-----------------------------------------------------------------------------
(* A Lexer driven by its caller: reset(str), next(), peek() in any order *)

Lx == [expression |-> expression, length |-> length, index |-> index, marker |-> marker]

SetLx(lx) ==
  /\ expression' = lx.expression
  /\ length' = lx.length
  /\ index' = lx.index
  /\ marker' = lx.marker

Ended == out # <<>> /\ out[Len(out)].kind \in {"undefined", "error"}

Init ==
  /\ expression = NewLexer.expression
  /\ length = NewLexer.length
  /\ index = NewLexer.index
  /\ marker = NewLexer.marker
  /\ op = "new"
  /\ ret = undefined
  /\ out = <<>>
  /\ reused = FALSE
  /\ text = <<>>
  /\ context = Context

LexerReset ==
  \E str \in LexTexts :
    /\ SetLx(reset(Lx, str))
    /\ op' = "reset"
    /\ ret' = undefined
    /\ out' = <<>>
    /\ reused' = (op # "new")
    /\ UNCHANGED <<text, context>>

\* the call named name was made and ended as r
Called(name, r) ==
  /\ SetLx(r.lx)
  /\ op' = name
  /\ ret' = r.val
  /\ out' = IF name = "next" /\ ~Ended THEN Append(out, r.val) ELSE out

LexerNext ==
  /\ Called("next", next(Lx))
  /\ UNCHANGED <<reused, text, context>>

LexerPeek ==
  /\ Called("peek", peek(Lx))
  /\ UNCHANGED <<reused, text, context>>

Next == LexerReset \/ LexerNext \/ LexerPeek

Spec == Init /\ [][Next]_vars

-----------------------------------------------------------------------------
(* A new Lexer given one input: reset(text), then next() repeated *)

InitLiteral ==
  /\ expression = NewLexer.expression
  /\ length = NewLexer.length
  /\ index = NewLexer.index
  /\ marker = NewLexer.marker
  /\ op = "new"
  /\ ret = undefined
  /\ out = <<>>
  /\ reused = FALSE
  /\ text \in LitTexts
  /\ context = Context

LiteralReset ==
  /\ op = "new"
  /\ SetLx(reset(Lx, text))
  /\ op' = "reset"
  /\ ret' = undefined
  /\ out' = <<>>
  /\ UNCHANGED <<reused, text, context>>

LiteralNext == op # "new" /\ ~Ended /\ LexerNext

NextLiteral == LiteralReset \/ LiteralNext

SpecLiteral == InitLiteral /\ [][NextLiteral]_vars

-----------------------------------------------------------------------------
(* An Evaluator given one expression: evaluator.parser.parse(text) and
   evaluator.evaluate(text), in any order and any number of times *)

MaxOps == 3

BinaryOps == {"+", "-", "*", "/"}

ChainOperands == {<<"x">>, <<"(", "3", ")">>}

\* operands a[1] .. a[n+1] joined by the operators o[1] .. o[n]
RECURSIVE ChainText(_, _)
ChainText(a, o) ==
  IF o = <<>> THEN a[1]
  ELSE a[1] \o <<o[1]>> \o ChainText(Tail(a), Tail(o))

ChainTexts ==
  UNION { {ChainText(a, o) : a \in [1..(n + 1) -> ChainOperands], o \in [1..n -> BinaryOps]} :
          n \in 0..MaxOps }

ExampleTexts ==
  { <<"1", "+", "2", "*", "3">>,
    <<"8", "-", "3", "-", "2">>,
    <<"8", "/", "4", "/", "2">> }

ParseTexts == ChainTexts \cup ExampleTexts

InitParse ==
  /\ expression = NewLexer.expression
  /\ length = NewLexer.length
  /\ index = NewLexer.index
  /\ marker = NewLexer.marker
  /\ op = "new"
  /\ ret = undefined
  /\ out = <<>>
  /\ reused = FALSE
  /\ text \in ParseTexts
  /\ context = Context

\* syntax = parser.parse(text)
ParseText ==
  \E r \in {parse(Context, Lx, text)} :
    /\ SetLx(r.lx)
    /\ op' = "parse"
    /\ ret' = r.val
    /\ UNCHANGED <<out, reused, text, context>>

\* evaluator.evaluate(text)
EvaluateText ==
  \E r \in {evaluate(context, Lx, text)} :
    /\ SetLx(r.lx)
    /\ context' = r.c
    /\ op' = "evaluate"
    /\ ret' = r.val
    /\ UNCHANGED <<out, reused, text>>

NextParse == ParseText \/ EvaluateText

SpecParse == InitParse /\ [][NextParse]_vars

-----------------------------------------------------------------------------
(* An Evaluator given any short text: the same two calls as above, over every
   string of a small alphabet and the expressions the documentation names *)

MaxParseLen == 4

GrammarAlphabet == {"2", "x", "+", "(", ")", "=", "^", " "}

GrammarTexts == Strings(GrammarAlphabet, MaxParseLen)

GroupPrimaries == {<<"x">>, <<"2">>}

\* ( a P b ) M c
GroupTexts ==
  { <<"(">> \o a \o <<P>> \o b \o <<")", M>> \o c :
      a \in GroupPrimaries, b \in GroupPrimaries, c \in GroupPrimaries,
      P \in {"+", "-"}, M \in {"*", "/"} }

GrammarExamples ==
  { <<"(", "1", "+", "2", ")", "*", "3">>,
    <<"2", " ", "3">>,
    <<"2", " ", "^", " ", "3">>,
    <<"2", " ", "%", " ", "3">>,
    <<"1", " ", ";", " ", "2">>,
    <<"x", " ", ",", " ", "y">>,
    <<"2", " ", "+">>,
    <<"y">>,
    <<"x", " ", "=", " ", "y", " ", "=", " ", "2">>,
    <<"x", " ", "+", " ", "1", " ", "=", " ", "5">>,
    <<"(", "x", ")", " ", "=", " ", "5">>,
    <<"a", "b", "s", "(", "2", ")", "=", "5">>,
    <<"a", "b", "s", "(", "2", ")">>,
    <<"a", "b", "s", "(", ")">>,
    <<"a", "b", "s", "(", "2", ",", "2", ")">>,
    <<"f", "o", "o", "(", "2", ")">> }

InitGrammar ==
  /\ expression = NewLexer.expression
  /\ length = NewLexer.length
  /\ index = NewLexer.index
  /\ marker = NewLexer.marker
  /\ op = "new"
  /\ ret = undefined
  /\ out = <<>>
  /\ reused = FALSE
  /\ text \in GrammarTexts \cup GroupTexts \cup GrammarExamples
  /\ context = Context

NextGrammar == ParseText \/ EvaluateText

SpecGrammar == InitGrammar /\ [][NextGrammar]_vars

-----------------------------------------------------------------------------
(* One Evaluator used for a sequence of expressions: evaluator.evaluate(str)
   again and again, the context kept from call to call *)

SessionTexts ==
  { <<"x", " ", "=", " ", "5">>,
    <<"x", " ", "=", " ", "7">>,
    <<"x", " ", "+", " ", "1">>,
    <<"x">>,
    <<"y">>,
    <<"x", " ", "=", " ", "y">>,
    <<"y", " ", "=", " ", "x">>,
    <<"y", " ", "=", " ", "2">>,
    <<"p", "i">>,
    <<"p", "i", " ", "=", " ", "2">>,
    <<"x", " ", "=", " ", "(", "x", " ", "=", " ", "2", ")", " ", "+", " ", "z">>,
    <<"x", " ", "=", " ", "5", " ", "+">> }

InitSession ==
  /\ expression = NewLexer.expression
  /\ length = NewLexer.length
  /\ index = NewLexer.index
  /\ marker = NewLexer.marker
  /\ op = "new"
  /\ ret = undefined
  /\ out = <<>>
  /\ reused = FALSE
  /\ text = <<>>
  /\ context = Context

\* el.textContent = evaluator.evaluate(expr).toString()
SessionEvaluate ==
  \E str \in SessionTexts :
    \E r \in {evaluate(context, Lx, str)} :
      /\ SetLx(r.lx)
      /\ context' = r.c
      /\ op' = "evaluate"
      /\ ret' = r.val
      /\ text' = str
      /\ UNCHANGED <<out, reused>>

NextSession == SessionEvaluate

SpecSession == InitSession /\ [][NextSession]_vars

-----------------------------------------------------------------------------
(* An Evaluator constructed with or without a context of the caller:
   evaluator.parser.parse(str) and evaluator.evaluate(str), again and again *)

\* the functions of the caller's context: f of two arguments, and nothing else
CustomFunctions == (<<"f">> :> <<<<"f">>, 2>>)

\* new Evaluator(ctx)
CustomContext == [Context EXCEPT !.Functions = CustomFunctions]

Environments == {Context, CustomContext}

EnvTexts ==
  { <<>>,
    <<"x">>,
    <<"2", " ", "3">>,
    <<"f", "(", "1", ",", "2", ")">>,
    <<"f", "(", "x", "=", "1", ",", "x", ")">>,
    <<"f", "o", "o", "(", "1", ")">>,
    <<"f", "o", "o", "(", "x", "=", "1", ")">>,
    <<"a", "b", "s", "(", "x", "=", "1", ")">>,
    <<"(", "x", "=", "2", ")", "*", "x">>,
    <<"x", "*", "(", "x", "=", "2", ")">>,
    <<"y", "*", "(", "x", "=", "2", ")">>,
    <<"x", "=", "1", "+">>,
    <<"(", "x", "=", "1", ")", "2">>,
    <<"x", "=", "1", "#">> }

InitEnv ==
  /\ expression = NewLexer.expression
  /\ length = NewLexer.length
  /\ index = NewLexer.index
  /\ marker = NewLexer.marker
  /\ op = "new"
  /\ ret = undefined
  /\ out = <<>>
  /\ reused = FALSE
  /\ text = <<>>
  /\ context \in Environments

\* evaluator.parser.parse(str)
EnvParse ==
  \E str \in EnvTexts :
    \E r \in {parse(Context, Lx, str)} :
      /\ SetLx(r.lx)
      /\ op' = "parse"
      /\ ret' = r.val
      /\ text' = str
      /\ UNCHANGED <<out, reused, context>>

\* evaluator.evaluate(str)
EnvEvaluate ==
  \E str \in EnvTexts :
    \E r \in {evaluate(context, Lx, str)} :
      /\ SetLx(r.lx)
      /\ context' = r.c
      /\ op' = "evaluate"
      /\ ret' = r.val
      /\ text' = str
      /\ UNCHANGED <<out, reused>>

NextEnv == EnvParse \/ EnvEvaluate

SpecEnv == InitEnv /\ [][NextEnv]_vars

-----------------------------------------------------------------------------
(* An Evaluator given a text that may hold characters of no token *)

LookaheadAlphabet == {"2", "x", "+", "(", ")", "#", "."}

LookaheadExamples ==
  { <<"(", "2", " ", "#", ")">>,
    <<"a", "b", "s", "(", "2", " ", "#", ")">>,
    <<"a", "b", "s", "(", "2", ",", "#", ")">>,
    <<"x", " ", "=", " ", "#">>,
    <<"2", " ", "*", " ", ".">> }

LookaheadTexts == Strings(LookaheadAlphabet, MaxParseLen) \cup LookaheadExamples

InitLookahead ==
  /\ expression = NewLexer.expression
  /\ length = NewLexer.length
  /\ index = NewLexer.index
  /\ marker = NewLexer.marker
  /\ op = "new"
  /\ ret = undefined
  /\ out = <<>>
  /\ reused = FALSE
  /\ text \in LookaheadTexts
  /\ context = Context

NextLookahead == ParseText \/ EvaluateText

SpecLookahead == InitLookahead /\ [][NextLookahead]_vars

-----------------------------------------------------------------------------
(* Helpers of the properties *)

Last(s) == s[Len(s)]

Range(s) == {s[i] : i \in 1..Len(s)}

IsToken(v) == "kind" \in DOMAIN v /\ v.kind = "token"

IsError(v) == "kind" \in DOMAIN v /\ v.kind = "error"

\* the results of next() repeated on a newly constructed Lexer given reset(str),
\* up to and including the end-of-input marker or the lexical error
RECURSIVE Drain(_)
Drain(lx) ==
  IF next(lx).thrown \/ next(lx).val = undefined
    THEN <<next(lx).val>>
    ELSE <<next(lx).val>> \o Drain(next(lx).lx)

FreshRun(str) == Drain(reset(NewLexer, str))

IsPrefix(s, t) == Len(s) <= Len(t) /\ \A i \in 1..Len(s) : s[i] = t[i]

\* out is a whole run of next() that reached the end of the input without error
Tokenized == out # <<>> /\ Last(out) = undefined

Tokens == IF Tokenized THEN SubSeq(out, 1, Len(out) - 1) ELSE <<>>

RECURSIVE SumSpans(_)
SumSpans(toks) ==
  IF toks = <<>> THEN 0
  ELSE (toks[1].end - toks[1].start + 1) + SumSpans(Tail(toks))

Covered(i) == \E k \in 1..Len(Tokens) : Tokens[k].start <= i /\ i <= Tokens[k].end

WhiteSpaceCount == Cardinality({i \in 1..length : isWhiteSpace(expression[i])})

-----------------------------------------------------------------------------
(* C1: where the upcoming token scans without lexical error, a peek() that
   follows a peek() returns the same result and leaves index unchanged, and the
   next() that follows a peek() returns a token of the same type and value
   (or the end-of-input marker if peek() returned it) and leaves the cursor
   just past that token. *)
C1_PeekIdempotent ==
  [][ (op = "peek" /\ ~next(Lx).thrown) =>
        /\ (op' = "peek" => (ret' = ret /\ index' = index))
        /\ (op' = "next" =>
              IF ret = undefined
                THEN ret' = undefined
                ELSE /\ IsToken(ret')
                     /\ positionless(ret') = ret
                     /\ index' = ret'.end + 1
                     /\ index' > index) ]_vars

C1_Witness ==
  op = "peek" /\ IsToken(ret) /\ index > 0 /\ ~next(Lx).thrown

(* C2: peek() never raises: it returns a token or the end-of-input marker,
   the end-of-input marker whenever next() at the same cursor would raise,
   and index after peek() equals index before it. *)
C2_PeekNeverRaises ==
  [][ op' = "peek" =>
        /\ ~IsError(ret')
        /\ index' = index
        /\ (next(Lx).thrown => ret' = undefined) ]_vars

C2_Witness ==
  op = "peek" /\ ret = undefined /\ next(Lx).thrown /\ index > 0

(* C3: whatever was done with the Lexer before reset(str), the results of
   next() after it (tokens with type, value, start and end, then the
   end-of-input marker or the lexical error) are those of a newly constructed
   Lexer given reset(str). *)
C3_ResetDiscardsState == IsPrefix(out, FreshRun(expression))

C3_Witness ==
  /\ reused
  /\ Len(out) >= 2
  /\ out = FreshRun(expression)
  /\ out[1].start > 0

(* C4: for an input tokenized to the end without error, every token has
   start <= end, the tokens follow each other without overlap, each value is
   the input from start to end inclusive, every character outside the tokens
   is whitespace, and the token lengths plus the whitespace characters add up
   to the input length. *)
C4_TokenSpans ==
  Tokenized =>
    /\ \A k \in 1..Len(Tokens) :
         /\ 0 <= Tokens[k].start
         /\ Tokens[k].start <= Tokens[k].end
         /\ Tokens[k].end < length
         /\ Tokens[k].value = SubSeq(expression, Tokens[k].start + 1, Tokens[k].end + 1)
    /\ \A k \in 1..(Len(Tokens) - 1) : Tokens[k].end < Tokens[k + 1].start
    /\ \A i \in 0..(length - 1) : ~Covered(i) => isWhiteSpace(expression[i + 1])
    /\ SumSpans(Tokens) + WhiteSpaceCount = length

C4_Witness ==
  /\ Tokenized
  /\ Len(Tokens) >= 2
  /\ WhiteSpaceCount >= 1

(* A valid numeric literal: a digit run, optionally '.' and a digit run,
   optionally e/E, an optional sign and a digit run *)
DigitRun(s, a, b) == a <= b /\ \A i \in a..b : s[i] \in Digits

ExponentPart(s, p) ==
  \/ p = Len(s) + 1
  \/ /\ p <= Len(s)
     /\ s[p] \in {"e", "E"}
     /\ LET q == IF p + 1 <= Len(s) /\ s[p + 1] \in {"+", "-"} THEN p + 2 ELSE p + 1
        IN DigitRun(s, q, Len(s))

FractionPart(s, p) ==
  \/ ExponentPart(s, p)
  \/ /\ p <= Len(s)
     /\ s[p] = "."
     /\ \E j \in (p + 1)..Len(s) : DigitRun(s, p + 1, j) /\ ExponentPart(s, j + 1)

IsNumericLiteral(s) ==
  \E i \in 1..Len(s) : DigitRun(s, 1, i) /\ FractionPart(s, i + 1)

(* C5: for an input that is exactly one valid numeric literal, the first
   next() after reset returns one Number token whose value is the whole input,
   with start = 0 and end = length - 1, and the following next() returns the
   end-of-input marker. *)
C5_NumericLiteralOneToken ==
  (IsNumericLiteral(text) /\ expression = text) =>
    /\ Len(out) >= 1 =>
         out[1] = [kind |-> "token", type |-> "Number", value |-> text,
                   start |-> 0, end |-> Len(text) - 1]
    /\ Len(out) >= 2 => out[2] = undefined

C5_Witness ==
  /\ IsNumericLiteral(text)
  /\ expression = text
  /\ Len(out) = 2
  /\ "." \in Range(text)
  /\ "e" \in Range(text)
  /\ "-" \in Range(text)

(* C6: every Number token returned by next() whose value contains 'e' or 'E'
   has at least one decimal digit after the exponent marker and its optional
   sign. *)
HasExponent(v) == \E i \in 1..Len(v) : v[i] \in {"e", "E"}

AfterExponentSign(v) ==
  LET p == CHOOSE i \in 1..Len(v) : v[i] \in {"e", "E"}
      q == IF p + 1 <= Len(v) /\ v[p + 1] \in {"+", "-"} THEN p + 2 ELSE p + 1
  IN SubSeq(v, q, Len(v))

C6_ExponentDigitsMandatory ==
  (op = "next" /\ IsToken(ret) /\ ret.type = "Number" /\ HasExponent(ret.value)) =>
    /\ AfterExponentSign(ret.value) # <<>>
    /\ Range(AfterExponentSign(ret.value)) \subseteq Digits

(* C7: next() raises whenever the scan starts at a '.' that has no decimal
   digit immediately before it and none immediately after it. *)
ScanStart == skipSpaces(Lx).index

LoneDotAhead ==
  LET i == ScanStart IN
    /\ i < length
    /\ expression[i + 1] = "."
    /\ (i = 0 \/ ~isDecimalDigit(expression[i]))
    /\ (i + 1 >= length \/ ~isDecimalDigit(expression[i + 2]))

C7_LoneDotAlwaysError ==
  [][ (LoneDotAhead /\ op' = "next") => IsError(ret') ]_vars

(* C8: every lexical error raised by next() carries as its position the
   offset at which the scan of the offending token started (the marker). *)
C8_ErrorPositionIsScanStart ==
  (op = "next" /\ IsError(ret)) => ret.position = marker

-----------------------------------------------------------------------------
(* Chains of primaries: the expected trees are built from the text alone *)

AdditiveOps == {"+", "-"}

MultiplicativeOps == {"*", "/"}

\* str cut at the binary operators outside parentheses, from position i on;
\* cur is the operand being read, acc what was cut off before it
RECURSIVE splitFrom(_, _, _, _, _)
splitFrom(str, i, depth, cur, acc) ==
  IF i > Len(str)
    THEN [operands |-> Append(acc.operands, cur), ops |-> acc.ops]
  ELSE IF depth = 0 /\ str[i] \in BinaryOps
    THEN splitFrom(str, i + 1, 0, <<>>,
                   [operands |-> Append(acc.operands, cur), ops |-> Append(acc.ops, str[i])])
  ELSE splitFrom(str, i + 1,
                 depth + (IF str[i] = "(" THEN 1 ELSE IF str[i] = ")" THEN -1 ELSE 0),
                 Append(cur, str[i]), acc)

SplitChain(str) == splitFrom(str, 1, 0, <<>>, [operands |-> <<>>, ops |-> <<>>])

\* a one-digit number, or one of the operands of the chains
IsPrimaryText(a) == a \in ChainOperands \/ (Len(a) = 1 /\ a[1] \in Digits)

IsChain(c) == \A k \in 1..Len(c.operands) : IsPrimaryText(c.operands[k])

\* the tree of a primary
PrimaryNode(a) ==
  IF a[1] = "(" THEN [Expression |-> [Number |-> SubSeq(a, 2, Len(a) - 1)]]
  ELSE IF a[1] \in Digits THEN [Number |-> a]
  ELSE [Identifier |-> a]

BinaryTree(o, l, r) == [Binary |-> [operator |-> <<o>>, left |-> l, right |-> r]]

IsTree(v) == "Expression" \in DOMAIN v

\* a P b M c, or a M b P c
IsMixedChain(c) ==
  /\ IsChain(c)
  /\ Len(c.ops) = 2
  /\ \/ c.ops[1] \in AdditiveOps /\ c.ops[2] \in MultiplicativeOps
     \/ c.ops[1] \in MultiplicativeOps /\ c.ops[2] \in AdditiveOps

\* Binary(P, a, Binary(M, b, c)) for a P b M c, Binary(P, Binary(M, a, b), c) for a M b P c
TighterTree(c) ==
  IF c.ops[1] \in AdditiveOps
    THEN BinaryTree(c.ops[1], PrimaryNode(c.operands[1]),
                    BinaryTree(c.ops[2], PrimaryNode(c.operands[2]), PrimaryNode(c.operands[3])))
    ELSE BinaryTree(c.ops[2],
                    BinaryTree(c.ops[1], PrimaryNode(c.operands[1]), PrimaryNode(c.operands[2])),
                    PrimaryNode(c.operands[3]))

(* C9: multiplicative operators bind tighter than additive ones.  For
   primaries a, b, c, P in {+,-} and M in {*,/}, parse('a P b M c') is
   Binary(P, a, Binary(M, b, c)) and parse('a M b P c') is
   Binary(P, Binary(M, a, b), c); evaluate('1+2*3') returns 7. *)
C9_MultiplicativeBindsTighter ==
  /\ (op = "parse" /\ IsMixedChain(SplitChain(text)))
       => ret = [Expression |-> TighterTree(SplitChain(text))]
  /\ (op = "evaluate" /\ text = <<"1", "+", "2", "*", "3">>) => ret = Ratio(7, 1)

C9_Witness ==
  /\ op = "parse"
  /\ IsMixedChain(SplitChain(text))
  /\ SplitChain(text).ops[1] \in AdditiveOps
  /\ IsTree(ret)

\* two operators or more, all of one precedence level
IsLevelChain(c) ==
  /\ IsChain(c)
  /\ Len(c.ops) >= 2
  /\ \/ \A k \in 1..Len(c.ops) : c.ops[k] \in AdditiveOps
     \/ \A k \in 1..Len(c.ops) : c.ops[k] \in MultiplicativeOps

\* the first k operators of the chain applied from the left
RECURSIVE LeftFold(_, _)
LeftFold(c, k) ==
  IF k = 0 THEN PrimaryNode(c.operands[1])
  ELSE BinaryTree(c.ops[k], LeftFold(c, k - 1), PrimaryNode(c.operands[k + 1]))

(* C10: all binary operators are left-associative.  For op1, op2 of one
   precedence level and primaries a, b, c, parse('a op1 b op2 c') is
   Binary(op2, Binary(op1, a, b), c), and so on for chains of any length;
   evaluate('8-3-2') returns 3 and evaluate('8/4/2') returns 1. *)
C10_LeftAssociative ==
  /\ (op = "parse" /\ IsLevelChain(SplitChain(text)))
       => ret = [Expression |-> LeftFold(SplitChain(text), Len(SplitChain(text).ops))]
  /\ (op = "evaluate" /\ text = <<"8", "-", "3", "-", "2">>) => ret = Ratio(3, 1)
  /\ (op = "evaluate" /\ text = <<"8", "/", "4", "/", "2">>) => ret = Ratio(1, 1)

C10_Witness ==
  /\ op = "parse"
  /\ IsLevelChain(SplitChain(text))
  /\ Len(SplitChain(text).ops) = MaxOps
  /\ SplitChain(text).ops[1] # SplitChain(text).ops[2]
  /\ IsTree(ret)

-----------------------------------------------------------------------------
(* Groups, assignments and the end of the input *)

\* the text between the parentheses of a group
Inner(a) == SubSeq(a, 2, Len(a) - 1)

IsGroupText(a) == Len(a) >= 2 /\ a[1] = "(" /\ a[Len(a)] = ")"

IsBarePrimary(a) == Len(a) = 1 /\ (a[1] \in Digits \/ a[1] \in Letters)

\* ( a P b ) M c, as cut by SplitChain
IsGroupedChain(c) ==
  /\ Len(c.ops) = 1
  /\ c.ops[1] \in MultiplicativeOps
  /\ IsGroupText(c.operands[1])
  /\ IsBarePrimary(c.operands[2])
  /\ Len(SplitChain(Inner(c.operands[1])).ops) = 1
  /\ SplitChain(Inner(c.operands[1])).ops[1] \in AdditiveOps
  /\ \A k \in 1..2 : IsBarePrimary(SplitChain(Inner(c.operands[1])).operands[k])

\* the wrapper node of a parenthesised subexpression
Grouping(inner) == [Expression |-> inner]

\* Binary(P, a, b) of the text a P b
InnerTree(c) ==
  BinaryTree(c.ops[1], PrimaryNode(c.operands[1]), PrimaryNode(c.operands[2]))

(* C11: a parenthesised subexpression is kept in the tree as a wrapper node
   around the inner expression and acts as one primary: parse('(a P b) M c')
   is Binary(M, Grouping(Binary(P, a, b)), c), and evaluate('(1+2)*3')
   returns 9. *)
C11_GroupingKept ==
  /\ (op = "parse" /\ IsGroupedChain(SplitChain(text)))
       => ret = [Expression |->
                   BinaryTree(SplitChain(text).ops[1],
                              Grouping(InnerTree(SplitChain(Inner(SplitChain(text).operands[1])))),
                              PrimaryNode(SplitChain(text).operands[2]))]
  /\ (op = "evaluate" /\ text = <<"(", "1", "+", "2", ")", "*", "3">>) => ret = Ratio(9, 1)

C11_Witness ==
  /\ op = "parse"
  /\ IsGroupedChain(SplitChain(text))
  /\ IsTree(ret)
  /\ "Expression" \in DOMAIN ret.Expression.Binary.left

\* the position of the first '=' of str outside parentheses, from position i on; 0 if none
RECURSIVE assignAt(_, _, _)
assignAt(str, i, depth) ==
  IF i > Len(str) THEN 0
  ELSE IF depth = 0 /\ str[i] = "=" THEN i
  ELSE assignAt(str, i + 1,
                depth + (IF str[i] = "(" THEN 1 ELSE IF str[i] = ")" THEN -1 ELSE 0))

AssignAt(str) == assignAt(str, 1, 0)

\* what stands before and after that '='
LeftSide(str) == SubSeq(str, 1, AssignAt(str) - 1)

RightSide(str) == SubSeq(str, AssignAt(str) + 1, Len(str))

RECURSIVE Trim(_)
Trim(a) ==
  IF a = <<>> THEN a
  ELSE IF a[1] = " " THEN Trim(Tail(a))
  ELSE IF a[Len(a)] = " " THEN Trim(SubSeq(a, 1, Len(a) - 1))
  ELSE a

\* one identifier and nothing else
IsIdentifierText(a) ==
  /\ a # <<>>
  /\ isIdentifierStart(a[1])
  /\ \A k \in 1..Len(a) : isIdentifierPart(a[k])

\* the outcome of parse(str) on a new Parser
FreshParse(str) == parse(Context, NewLexer, str)

IsTrailingTokenError(v, value) ==
  /\ IsError(v)
  /\ v.name = "ParserError"
  /\ v.message = <<"Unexpected token", value>>

(* C12: parse builds an Assignment node only when the left-hand side is a
   bare Identifier immediately followed by '='.  For a text L = R: if L is
   an identifier, the tree is Assignment(L, tree of R) (so 'x = y = e' is
   Assignment(x, Assignment(y, e))), or an error if R has no tree; if L is a
   complete expression of another kind (a literal, a call, a group, a unary
   or a binary expression), parse raises the trailing-token error at '='. *)
C12_AssignmentOnlyToIdentifier ==
  /\ (op = "parse" /\ AssignAt(text) > 0 /\ IsIdentifierText(Trim(LeftSide(text))))
       => IF FreshParse(RightSide(text)).thrown
            THEN IsError(ret)
            ELSE ret = [Expression |->
                          [Assignment |->
                             [name |-> [Identifier |-> Trim(LeftSide(text))],
                              value |-> FreshParse(RightSide(text)).val.Expression]]]
  /\ (op = "parse" /\ AssignAt(text) > 0 /\ ~IsIdentifierText(Trim(LeftSide(text)))
        /\ ~FreshParse(LeftSide(text)).thrown)
       => IsTrailingTokenError(ret, <<"=">>)
  /\ (op = "parse" /\ text = <<"x", " ", "=", " ", "y", " ", "=", " ", "2">>)
       => ret = [Expression |->
                   [Assignment |->
                      [name |-> [Identifier |-> <<"x">>],
                       value |-> [Assignment |->
                                    [name |-> [Identifier |-> <<"y">>],
                                     value |-> [Number |-> <<"2">>]]]]]]

C12_Witness ==
  /\ op = "parse"
  /\ text = <<"(", "x", ")", " ", "=", " ", "5">>
  /\ IsTrailingTokenError(ret, <<"=">>)

\* the number of tokens a tree was built from
RECURSIVE TreeTokens(_), ArgumentTokens(_, _)
TreeTokens(node) ==
  IF "Number" \in DOMAIN node THEN 1
  ELSE IF "Identifier" \in DOMAIN node THEN 1
  ELSE IF "Expression" \in DOMAIN node THEN 2 + TreeTokens(node.Expression)
  ELSE IF "Unary" \in DOMAIN node THEN 1 + TreeTokens(node.Unary.expression)
  ELSE IF "Binary" \in DOMAIN node
    THEN 1 + TreeTokens(node.Binary.left) + TreeTokens(node.Binary.right)
  ELSE IF "Assignment" \in DOMAIN node THEN 2 + TreeTokens(node.Assignment.value)
  ELSE 3 + ArgumentTokens(node.FunctionCall.args, Len(node.FunctionCall.args))

\* the tokens of the first k arguments of a call and of the commas between them
ArgumentTokens(args, k) ==
  IF k = 0 THEN 0
  ELSE ArgumentTokens(args, k - 1) + TreeTokens(args[k]) + (IF k > 1 THEN 1 ELSE 0)

\* the documented inputs with a token left over
TrailingTexts ==
  { <<"2", " ", "3">>,
    <<"2", " ", "^", " ", "3">>,
    <<"2", " ", "%", " ", "3">>,
    <<"1", " ", ";", " ", "2">>,
    <<"x", " ", ",", " ", "y">> }

(* C13: parse(text) returns a tree only if the entire input was consumed:
   the tree accounts for every token of the text.  Whenever a token remains
   after the top-level Expression ('2 3', '2 ^ 3', '2 % 3', '1 ; 2',
   'x , y'), parse raises a parse error and returns no tree. *)
C13_WholeInputConsumed ==
  /\ (op = "parse" /\ IsTree(ret))
       => /\ Last(FreshRun(text)) = undefined
          /\ TreeTokens(ret.Expression) = Len(FreshRun(text)) - 1
  /\ (op = "parse" /\ text \in TrailingTexts)
       => IsTrailingTokenError(ret, <<text[3]>>)

C13_Witness ==
  /\ op = "parse"
  /\ text = <<"2", " ", "^", " ", "3">>
  /\ IsTrailingTokenError(ret, <<"^">>)

IsBlank(str) == \A k \in 1..Len(str) : isWhiteSpace(str[k])

(* C14: for the empty input and for every input of whitespace only, parse
   returns a 'no expression' result and raises no error. *)
C14_BlankInputNoError ==
  (op = "parse" /\ IsBlank(text)) => ~IsError(ret) /\ ~IsTree(ret)

\* calls that match the grammar: the name is unknown to Context(), or the
\* number of arguments is not the declared one
MismatchedCalls ==
  { <<"x", "(", "2", ")">>,
    <<"f", "o", "o", "(", "2", ")">>,
    <<"a", "b", "s", "(", ")">>,
    <<"a", "b", "s", "(", "2", ",", "2", ")">> }

(* C15: a call to a function name the Environment does not know, or with a
   number of arguments other than the declared one, does not abort the parse:
   parse returns the complete tree with its FunctionCall node. *)
C15_MismatchedCallStillParses ==
  (op = "parse" /\ text \in MismatchedCalls)
    => IsTree(ret) /\ "FunctionCall" \in DOMAIN ret.Expression

(* C16: every parse error carries the start offset of the token that
   triggered it, or the end of what was consumed at the end of the input:
   parse('2 3') raises a parse error at offset 2, the offset of '3', and
   parse('2 +') one at the end of the input. *)
C16_ParseErrorPosition ==
  /\ (op = "parse" /\ text = <<"2", " ", "3">>)
       => IsTrailingTokenError(ret, <<"3">>) /\ ret.position = 2
  /\ (op = "parse" /\ text = <<"2", " ", "+">>)
       => /\ IsError(ret)
          /\ ret.name = "ParserError"
          /\ ret.position \in {Len(text) - 1, Len(text)}

(* C17: every error raised by evaluate (lexical, parse or evaluation)
   carries a position that is an offset into the input:
   0 <= position <= length(text). *)
C17_ErrorPositionInInput ==
  (op = "evaluate" /\ IsError(ret)) => (0 <= ret.position /\ ret.position <= Len(text))

-----------------------------------------------------------------------------
(* Identifiers, assignments and the variables of an Evaluator *)

IsUnknownIdentifier(v) ==
  /\ IsError(v)
  /\ v.name = "EvaluatorError"
  /\ v.message = <<"Unknown identifier">>

(* C18: an Identifier evaluates to the constant of that name if there is
   one, otherwise to the variable of that name if there is one, otherwise
   the evaluation error 'unknown identifier' is raised; a name in both maps
   resolves to the constant, and evaluate('y') without y raises. *)
C18_ConstantsBeforeVariables ==
  (op = "evaluate" /\ IsIdentifierText(text))
    => IF text \in DOMAIN context.Constants THEN ret = context.Constants[text]
       ELSE IF text \in DOMAIN context.Variables THEN ret = context.Variables[text]
       ELSE IsUnknownIdentifier(ret)

C18_Witness ==
  /\ op = "evaluate"
  /\ text = <<"p", "i">>
  /\ text \in DOMAIN context.Constants
  /\ text \in DOMAIN context.Variables
  /\ context.Variables[text] # context.Constants[text]
  /\ ret = context.Constants[text]

\* c.Variables[name], undefined if there is none
VariableOf(c, name) ==
  IF name \in DOMAIN c.Variables THEN c.Variables[name] ELSE undefined

\* the text is name = value
IsAssignmentText(str) == AssignAt(str) > 0 /\ IsIdentifierText(Trim(LeftSide(str)))

AssignedName(str) == Trim(LeftSide(str))

(* C19: assignment is atomic.  When name = value is evaluated and the
   evaluation of value raises an error, variables[name] is exactly as before
   (still absent, or still its old value); when it succeeds with v, then
   variables[name] = v afterwards and the expression evaluates to v. *)
C19_AssignmentAtomic ==
  [][ (op' = "evaluate" /\ IsAssignmentText(text'))
        => IF IsError(ret')
             THEN VariableOf(context', AssignedName(text')) = VariableOf(context, AssignedName(text'))
             ELSE VariableOf(context', AssignedName(text')) = ret' ]_vars

\* pattern occurs in str
Occurs(str, pattern) ==
  \E i \in 1..(Len(str) - Len(pattern) + 1) : SubSeq(str, i, i + Len(pattern) - 1) = pattern

\* str holds an assignment to name
Assigns(str, name) == Occurs(str, name \o <<" ", "=">>) \/ Occurs(str, name \o <<"=">>)

(* C20: variables persist across the evaluate calls of one Evaluator.  No
   call removes a variable, a variable changes only in a call whose text
   assigns to it, and after a successful name = value it holds the value
   returned; evaluate('x = 5') returns 5, and while x holds 5
   evaluate('x + 1') returns 6, whatever calls failed in between. *)
C20_VariablesPersist ==
  /\ []((op = "evaluate" /\ text = <<"x", " ", "=", " ", "5">>)
          => (ret = Ratio(5, 1) /\ VariableOf(context, <<"x">>) = Ratio(5, 1)))
  /\ []((op = "evaluate" /\ text = <<"x", " ", "+", " ", "1">>
           /\ VariableOf(context, <<"x">>) = Ratio(5, 1))
          => ret = Ratio(6, 1))
  /\ [][ op' = "evaluate"
           => \A name \in DOMAIN context.Variables :
                /\ name \in DOMAIN context'.Variables
                /\ (context'.Variables[name] # context.Variables[name] => Assigns(text', name)) ]_vars
  /\ [][ (op' = "evaluate" /\ IsAssignmentText(text') /\ ~IsError(ret'))
           => VariableOf(context', AssignedName(text')) = ret' ]_vars

C20_Witness ==
  /\ op = "evaluate"
  /\ text = <<"x", " ", "+", " ", "1">>
  /\ <<"y">> \in DOMAIN context.Variables
  /\ ret = Ratio(6, 1)

(* C21: no sequence of evaluate calls changes the constants.  Evaluating
   'c = e' for a constant name c succeeds, returns the value of e and writes
   variables[c]; every later evaluation of the identifier c still returns
   the constant's original value. *)
C21_ConstantsNeverChange ==
  /\ context.Constants = Context.Constants
  /\ (op = "evaluate" /\ text = <<"p", "i", " ", "=", " ", "2">>)
       => (ret = Ratio(2, 1) /\ VariableOf(context, <<"p", "i">>) = Ratio(2, 1))
  /\ (op = "evaluate" /\ text = <<"p", "i">>) => ret = Context.Constants[<<"p", "i">>]

C21_Witness ==
  /\ op = "evaluate"
  /\ text = <<"p", "i", " ", "=", " ", "2">>
  /\ ret = Ratio(2, 1)
  /\ VariableOf(context, <<"p", "i">>) = Ratio(2, 1)
  /\ context.Constants = Context.Constants

-----------------------------------------------------------------------------
(* Calls, operand order and the parser of an Evaluator *)

\* the context is the caller's, with f registered for two arguments
HasCustomFunction(c) ==
  <<"f">> \in DOMAIN c.Functions /\ c.Functions[<<"f">>][2] = 2

\* f's callable applied to the list of values
Applied(c, name, values) == apply(c.Functions[name][1], values)

(* C22: for an Evaluator constructed with a context of the caller in which
   f is registered with arity n, evaluate('f(e1,...,en)') succeeds whenever
   the arguments evaluate: they are evaluated in the order e1..en into a
   list and the result is f's callable applied to that list, also when f is
   not one of the default functions. *)
C22_CustomFunctionCallable ==
  [][ (op' = "evaluate" /\ HasCustomFunction(context))
        => /\ text' = <<"f", "(", "1", ",", "2", ")">>
                => ret' = Applied(context, <<"f">>, <<Ratio(1, 1), Ratio(2, 1)>>)
           /\ text' = <<"f", "(", "x", "=", "1", ",", "x", ")">>
                => ret' = Applied(context, <<"f">>, <<Ratio(1, 1), Ratio(1, 1)>>) ]_vars

IsUnknownFunction(v) ==
  /\ IsError(v)
  /\ v.name = "EvaluatorError"
  /\ v.message[1] = "Unknown function"

(* C23: evaluate of a grammatically valid call to a name that is not
   registered in the functions of the environment ('foo(1)') raises an error
   of the evaluation kind, 'unknown function', not a lexical or parse
   error. *)
C23_UnknownFunctionIsEvalError ==
  (op = "evaluate" /\ text = <<"f", "o", "o", "(", "1", ")">>) => IsUnknownFunction(ret)

X == <<"x">>

(* C24: a Binary node evaluates its left operand completely before its
   right operand.  An assignment in the left operand is visible to the right
   one: evaluate('(x = 2) * x') returns 4, whereas evaluate('x * (x = 2)')
   with x undefined raises unknown identifier; an error raised by the left
   operand prevents every side effect of the right operand. *)
C24_LeftOperandFirst ==
  [][ op' = "evaluate"
        => /\ text' = <<"(", "x", "=", "2", ")", "*", "x">> => ret' = Ratio(4, 1)
           /\ (text' = <<"x", "*", "(", "x", "=", "2", ")">> /\ X \notin DOMAIN context.Variables)
                => (IsUnknownIdentifier(ret') /\ X \notin DOMAIN context'.Variables)
           /\ text' = <<"y", "*", "(", "x", "=", "2", ")">>
                => (IsUnknownIdentifier(ret') /\ context' = context) ]_vars

C24_Witness ==
  /\ op = "evaluate"
  /\ text = <<"x", "*", "(", "x", "=", "2", ")">>
  /\ IsUnknownIdentifier(ret)
  /\ X \notin DOMAIN context.Variables

\* the text is a call name(x=1)
IsCallAssigningX(str) ==
  /\ Len(str) > 5
  /\ SubSeq(str, Len(str) - 4, Len(str)) = <<"(", "x", "=", "1", ")">>
  /\ IsIdentifierText(SubSeq(str, 1, Len(str) - 5))

CalledName(str) == SubSeq(str, 1, Len(str) - 5)

(* C25: when a call names a function that is absent from the environment,
   the error is raised before any argument is evaluated: the assignments in
   the argument list are not performed, so evaluate('foo(x = 1)') with foo
   unregistered raises and leaves x as it was. *)
C25_UnknownFunctionBeforeArguments ==
  [][ (op' = "evaluate" /\ IsCallAssigningX(text')
         /\ CalledName(text') \notin DOMAIN context.Functions)
        => (IsError(ret') /\ context' = context) ]_vars

C25_Witness ==
  /\ op = "evaluate"
  /\ text = <<"a", "b", "s", "(", "x", "=", "1", ")">>
  /\ IsUnknownFunction(ret)
  /\ X \notin DOMAIN context.Variables

(* C26: the Parser is stateless across calls.  The outcome of parse(text)
   on a Parser (the tree, or the kind, message and position of the error)
   depends only on the text and the environment, not on the earlier parse
   calls on that Parser. *)
C26_ParserStateless ==
  op = "parse" => ret = FreshParse(text).val

IsSyntaxError(v) == IsError(v) /\ v.name \in {"LexerError", "ParserError"}

(* C29: if evaluate(text) raises a lexical or a parse error, the environment
   (constants, variables, functions) is exactly as before the call: no
   assignment of a text that does not parse ('x = 1 +', '(x = 1) 2') is
   performed. *)
C29_SyntaxErrorLeavesEnvironment ==
  [][ op' = "evaluate"
        => /\ IsSyntaxError(ret') => context' = context
           /\ text' \in { <<"x", "=", "1", "+">>, <<"(", "x", "=", "1", ")", "2">>,
                          <<"x", "=", "1", "#">> }
                => (IsSyntaxError(ret') /\ context' = context) ]_vars

C29_Witness ==
  /\ op = "evaluate"
  /\ text = <<"(", "x", "=", "1", ")", "2">>
  /\ IsSyntaxError(ret)
  /\ VariableOf(context, X) = Ratio(2, 1)

NodeVariants ==
  {"Number", "Identifier", "Unary", "Binary", "Assignment", "FunctionCall", "Expression"}

\* exactly one variant field, known operators, and so on below the node
RECURSIVE WellFormed(_)
WellFormed(node) ==
  /\ Cardinality(DOMAIN node) = 1
  /\ DOMAIN node \subseteq NodeVariants
  /\ "Expression" \in DOMAIN node => WellFormed(node.Expression)
  /\ "Unary" \in DOMAIN node
       => /\ node.Unary.operator \in {<<"+">>, <<"-">>}
          /\ WellFormed(node.Unary.expression)
  /\ "Binary" \in DOMAIN node
       => /\ node.Binary.operator \in {<<"+">>, <<"-">>, <<"*">>, <<"/">>}
          /\ WellFormed(node.Binary.left)
          /\ WellFormed(node.Binary.right)
  /\ "Assignment" \in DOMAIN node
       => /\ DOMAIN node.Assignment.name = {"Identifier"}
          /\ WellFormed(node.Assignment.value)
  /\ "FunctionCall" \in DOMAIN node
       => \A k \in 1..Len(node.FunctionCall.args) : WellFormed(node.FunctionCall.args[k])

(* C27: every node of every tree returned by parse has exactly one variant
   field (Number, Identifier, Unary, Binary, Assignment, FunctionCall or the
   Expression wrapper), every Unary operator is '+' or '-' and every Binary
   operator one of '+', '-', '*', '/'; evaluating a tree of parse never
   raises 'Unknown operator' or 'Unknown syntax node'. *)
C27_TreesWellFormed ==
  /\ (op = "parse" /\ IsTree(ret)) => WellFormed(ret)
  /\ (op = "evaluate" /\ IsError(ret))
       => ret.message[1] \notin {"Unknown operator", "Unknown syntax node"}

C27_Witness ==
  /\ op = "parse"
  /\ IsTree(ret)
  /\ "Binary" \in DOMAIN ret.Expression
  /\ "Unary" \in DOMAIN ret.Expression.Binary.right
  /\ WellFormed(ret)

\* the tokens among the results of next() since the last reset
TokenCount == Cardinality({k \in 1..Len(out) : IsToken(out[k])})

(* C28: tokenizing and parsing always make progress and terminate.  In
   every reachable Lexer state 0 <= index <= length; every next() that
   returns a token leaves the cursor strictly greater than before, so
   repeated next() reaches the end-of-input marker or a lexical error within
   length(text) calls; and parse(text) ends with a tree or an error, having
   consumed at least one token for every node. *)
C28_ProgressAndTermination ==
  [][ /\ 0 <= index' /\ index' <= length'
      /\ op' = "next"
           => /\ IsToken(ret') => index' > index
              /\ TokenCount' <= length'
              /\ Ended' => IF FreshParse(expression').thrown
                             THEN IsError(FreshParse(expression').val)
                             ELSE /\ IsTree(FreshParse(expression').val)
                                  /\ TreeTokens(FreshParse(expression').val.Expression)
                                       <= length' ]_vars

C28_Witness ==
  /\ op = "next"
  /\ Ended
  /\ TokenCount = length
  /\ length = MaxLexLen
  /\ IsTree(FreshParse(expression).val)

\* repeated next() on the text raises a lexical error before the end of the input
HasLexicalError(str) == IsError(Last(FreshRun(str)))

(* C30: swallowing lexical errors in lookahead never makes the parser
   accept invalid input.  For every text on which repeated next() raises a
   lexical error before the end of the input, parse(text) raises an error
   (lexical, or a parse error such as 'Unexpected end of expression') and
   never returns a tree. *)
C30_LookaheadNeverAccepts ==
  (op = "parse" /\ HasLexicalError(text))
    => (IsError(ret) /\ ret.name \in {"LexerError", "ParserError"} /\ ~IsTree(ret))

C30_Witness ==
  /\ op = "parse"
  /\ HasLexicalError(text)
  /\ text = <<"(", "2", " ", "#", ")">>
  /\ IsError(ret)
  /\ ret.name = "LexerError"

====
